---- MODULE Spec2Model ----
(***************************************************************************)
(* Badge rule engine and challenge participation state machine of the      *)
(* fitness-challenge API (services/challenge.service.ts,                   *)
(* services/badge.service.ts, models/badge.model.ts, models/challenge      *)
(* model), over a document store.                                          *)
(*                                                                         *)
(* Every handler is a sequence of store calls (the awaits of the code).    *)
(* Step applies one store call of a request, together with the local       *)
(* computation that follows it up to the next await; Run applies Step      *)
(* until the handler returns or throws.  Spec runs handlers one at a time; *)
(* SpecRace interleaves the store calls of several requests.               *)
(*                                                                         *)
(* document.save() writes the paths the handler modified: an array push    *)
(* is appended to the stored array ($push) and increments the document     *)
(* version; an assignment to a field of an array element is a positional   *)
(* $set guarded by the version read; a splice is a $set of the whole array *)
(* guarded by the version read, incrementing it; an assignment to a plain  *)
(* field is a $set of that field.  A guarded save whose version does not   *)
(* match throws and writes nothing.                                        *)
(***************************************************************************)
EXTENDS Integers, Sequences, FiniteSets, Bags, TLC

\* ---------------------------------------------------------------- bounds
MaxTime == 2
MaxTrainings == 1
MaxFails == 1
NSlots == 2

\* ------------------------------------------------------------- identities
Users == {"u1", "u2"}
Challenges == {"c1", "c2"}
\* a well-formed id that names no stored challenge
ChallengeIds == Challenges \cup {"cx"}
\* User.find returns the stored users in this order
UserOrder == <<"u1", "u2", "u3">>
\* a well-formed id that names no stored user
UserIds == Users \cup {"ux"}
\* Badge.find returns the stored badges in this order
BadgeOrder == <<"b1", "b2", "b3">>
Badges == {BadgeOrder[i] : i \in 1..Len(BadgeOrder)}

\* unset Date field (startDate, endDate, completedAt); set dates are >= 1
NoDate == 0
\* unset maxParticipants
NoMax == 0
\* totalDuration of every logged training
TrainingDuration == 30

\* ------------------------------------------------------- rule value model
Undef == [t |-> "undef"]
Null == [t |-> "null"]
Num(n) == [t |-> "num", n |-> n]
Str(s) == [t |-> "str", s |-> s]
Bool(b) == [t |-> "bool", b |-> b]
Arr(a) == [t |-> "arr", a |-> a]
Obj(o) == [t |-> "obj", o |-> o]

NaN == [ok |-> FALSE, n |-> 0]
Finite(n) == [ok |-> TRUE, n |-> n]

\* Number(x)
ToNumber(x) ==
  CASE x.t = "num" -> Finite(x.n)
    [] x.t = "undef" -> NaN
    [] x.t = "null" -> Finite(0)
    [] x.t = "bool" -> Finite(IF x.b THEN 1 ELSE 0)
    [] x.t = "str" -> IF x.s = "" THEN Finite(0) ELSE NaN
    [] x.t = "arr" -> IF Len(x.a) = 0 THEN Finite(0)
                      ELSE IF Len(x.a) = 1 /\ x.a[1].t = "num" THEN Finite(x.a[1].n)
                      ELSE NaN
    [] OTHER -> NaN

\* x === y
StrictEquals(x, y) ==
  /\ x.t = y.t
  /\ x.t \in {"num", "str", "bool", "undef", "null"}
  /\ x = y

\* badgeSchema.methods.getFieldValue; the path is the field split at the dots
RECURSIVE getFieldValue(_, _)
getFieldValue(obj, path) ==
  IF path = <<>> THEN obj
  ELSE IF obj.t = "obj" /\ Head(path) \in DOMAIN obj.o
       THEN getFieldValue(obj.o[Head(path)], Tail(path))
  ELSE IF obj.t = "arr" /\ Head(path) = "length"
       THEN getFieldValue(Num(Len(obj.a)), Tail(path))
  ELSE Undef

\* an evaluation that takes an undefined field for the number 0
evaluateRuleUndefinedAsZero(fieldValue, rule) ==
  IF fieldValue = Undef /\ rule.operator \in {"greater_than", "less_than", "between"}
  THEN CASE rule.operator = "greater_than" -> 0 > ToNumber(rule.value).n
         [] rule.operator = "less_than" -> 0 < ToNumber(rule.value).n
         [] OTHER -> 0 >= ToNumber(rule.value).n /\ 0 <= ToNumber(rule.value2).n
  ELSE CASE rule.operator = "equals" -> StrictEquals(fieldValue, rule.value)
         [] rule.operator = "greater_than" ->
              /\ ToNumber(fieldValue).ok /\ ToNumber(rule.value).ok
              /\ ToNumber(fieldValue).n > ToNumber(rule.value).n
         [] rule.operator = "less_than" ->
              /\ ToNumber(fieldValue).ok /\ ToNumber(rule.value).ok
              /\ ToNumber(fieldValue).n < ToNumber(rule.value).n
         [] rule.operator = "contains" ->
              /\ fieldValue.t = "arr"
              /\ \E i \in 1..Len(fieldValue.a) : StrictEquals(fieldValue.a[i], rule.value)
         [] rule.operator = "between" ->
              /\ ToNumber(fieldValue).ok /\ ToNumber(rule.value).ok
              /\ ToNumber(rule.value2).ok
              /\ ToNumber(fieldValue).n >= ToNumber(rule.value).n
              /\ ToNumber(fieldValue).n <= ToNumber(rule.value2).n
         [] OTHER -> FALSE

\* badgeSchema.methods.evaluateRule
evaluateRule(fieldValue, rule) ==
  CASE rule.operator = "equals" -> StrictEquals(fieldValue, rule.value)
    [] rule.operator = "greater_than" ->
         /\ ToNumber(fieldValue).ok /\ ToNumber(rule.value).ok
         /\ ToNumber(fieldValue).n > ToNumber(rule.value).n
    [] rule.operator = "less_than" ->
         /\ ToNumber(fieldValue).ok /\ ToNumber(rule.value).ok
         /\ ToNumber(fieldValue).n < ToNumber(rule.value).n
    [] rule.operator = "contains" ->
         /\ fieldValue.t = "arr"
         /\ \E i \in 1..Len(fieldValue.a) : StrictEquals(fieldValue.a[i], rule.value)
    [] rule.operator = "between" ->
         /\ ToNumber(fieldValue).ok /\ ToNumber(rule.value).ok /\ ToNumber(rule.value2).ok
         /\ ToNumber(fieldValue).n >= ToNumber(rule.value).n
         /\ ToNumber(fieldValue).n <= ToNumber(rule.value2).n
    [] OTHER -> FALSE

\* badgeSchema.methods.checkUserEligibility
RECURSIVE checkUserEligibility(_, _)
checkUserEligibility(rules, userData) ==
  IF rules = <<>> THEN TRUE
  ELSE IF ~evaluateRule(getFieldValue(userData, Head(rules).field), Head(rules)) THEN FALSE
  ELSE checkUserEligibility(Tail(rules), userData)

Rule(field, operator, value, value2) ==
  [type |-> "user_stat", field |-> field, operator |-> operator,
   value |-> value, value2 |-> value2]

\* ------------------------------------------------------------ the store
VARIABLES challenges, users, badges, trainings, invitations, now,
          reqs, fails, calls100

store == <<challenges, users, badges, trainings, invitations>>
vars == <<challenges, users, badges, trainings, invitations, now,
          reqs, fails, calls100>>

\* Participant subdocument pushed by joinChallenge and acceptInvitation
\* (joinedAt, written once and never read by the service, is left out)
Participant(user) ==
  [user |-> user, progress |-> 0, completedAt |-> NoDate]

ChallengeDoc(isActive, points, maxParticipants, startDate, endDate) ==
  [isActive |-> isActive, participants |-> <<>>, points |-> points,
   maxParticipants |-> maxParticipants, startDate |-> startDate,
   endDate |-> endDate, v |-> 0]

UserDoc(friends) ==
  [stats |-> [totalChallenges |-> 0, completedChallenges |-> 0,
              totalWorkoutMinutes |-> 0, score |-> 0],
   badges |-> <<>>, friends |-> friends, v |-> 0]

BadgeDoc(rules, points, isActive, isAutomatic) ==
  [rules |-> rules, points |-> points, isActive |-> isActive,
   isAutomatic |-> isAutomatic, earnedCount |-> 0]

\* the store as one value, handed to the steps of a handler
World ==
  [challenges |-> challenges, users |-> users, badges |-> badges,
   trainings |-> trainings, invitations |-> invitations, now |-> now]

\* challengeSchema.methods.hasParticipant
hasParticipant(doc, userId) ==
  \E i \in 1..Len(doc.participants) : doc.participants[i].user = userId

\* a capacity test that lets one participant too many in
isFullOffByOne(doc) ==
  IF doc.maxParticipants # NoMax
  THEN Len(doc.participants) > doc.maxParticipants
  ELSE FALSE

\* challengeSchema.methods.isFull
isFull(doc) ==
  IF doc.maxParticipants # NoMax
  THEN Len(doc.participants) >= doc.maxParticipants
  ELSE FALSE

\* Array.prototype.findIndex on the participant list; 0 when absent
findIndex(doc, userId) ==
  IF hasParticipant(doc, userId)
  THEN CHOOSE i \in 1..Len(doc.participants) :
         /\ doc.participants[i].user = userId
         /\ \A j \in 1..(i - 1) : doc.participants[j].user # userId
  ELSE 0

Range(seq) == {seq[k] : k \in 1..Len(seq)}

Min(a, b) == IF a < b THEN a ELSE b
Max(a, b) == IF a > b THEN a ELSE b

\* Math.min(100, Math.max(0, progress))
clamp(progress) == Min(100, Max(0, progress))

\* a pending Invitation document; accepted and rejected ones are deleted.
\* The invitation collection is a bag: documents that differ only in _id
\* are told apart by no query of the service.
Invitation(challenge, sender, recipient) ==
  [challenge |-> challenge, sender |-> sender, recipient |-> recipient]

\* invitation.deleteOne()
DeleteOne(bag, inv) ==
  IF BagIn(inv, bag) THEN bag (-) SetToBag({inv}) ELSE bag

\* --------------------------------------------------------- a request
\* The local state of one handler invocation: its arguments, the await it
\* is suspended at (pc), and the documents it holds in memory.
NewReq(op, pc, c, u, b, arg, fail, ord) ==
  [op |-> op, pc |-> pc, c |-> c, u |-> u, b |-> b, arg |-> arg,
   fail |-> fail, ord |-> ord, ret |-> "top",
   doc |-> ChallengeDoc(FALSE, 0, NoMax, NoDate, NoDate), idx |-> 0,
   old |-> Participant(""),
   udoc |-> UserDoc({}), bdoc |-> BadgeDoc(<<>>, 0, FALSE, FALSE),
   bfound |-> FALSE, autos |-> <<>>, bdocs |-> <<>>,
   tc |-> 0, cc |-> 0, tm |-> 0, earned |-> <<>>, i |-> 0,
   inv |-> Invitation("", "", ""), list |-> <<>>, found |-> <<>>,
   err |-> "ok", injected |-> FALSE]

Idle == NewReq("idle", "done", "", "", "", 0, "none", 0)

Ret(w, r) == [w |-> w, r |-> r]
Goto(w, r, pc) == Ret(w, [r EXCEPT !.pc = pc])
Return(w, r) == Ret(w, [r EXCEPT !.pc = "done", !.ret = "top"])
\* throw new AppError(...) / a rejected store call, outside any try block
Throw(w, r, e) == Ret(w, [r EXCEPT !.pc = "done", !.err = e, !.ret = "top"])

\* ---------------------------------------------------- joinChallenge
\* joinChallenge with the capacity check moved before the membership check
JoinFindFullFirst(w, r) ==
  IF r.c \notin DOMAIN w.challenges THEN Throw(w, r, "challenge_not_found")
  ELSE LET challenge == w.challenges[r.c] IN
    IF ~challenge.isActive THEN Throw(w, r, "inactive")
    ELSE IF isFull(challenge) THEN Throw(w, r, "full")
    ELSE IF hasParticipant(challenge, r.u) THEN Throw(w, r, "already_participating")
    ELSE IF challenge.startDate # NoDate /\ w.now < challenge.startDate
      THEN Throw(w, r, "not_started")
    ELSE IF challenge.endDate # NoDate /\ w.now > challenge.endDate
      THEN Throw(w, r, "ended")
    ELSE Ret(w, [r EXCEPT
           !.doc = [challenge EXCEPT
                      !.participants = Append(@, Participant(r.u))],
           !.pc = "j_save"])

JoinFind(w, r) ==
  IF r.c \notin DOMAIN w.challenges THEN Throw(w, r, "challenge_not_found")
  ELSE LET challenge == w.challenges[r.c] IN
    IF ~challenge.isActive THEN Throw(w, r, "inactive")
    ELSE IF hasParticipant(challenge, r.u) THEN Throw(w, r, "already_participating")
    ELSE IF isFull(challenge) THEN Throw(w, r, "full")
    ELSE IF challenge.startDate # NoDate /\ w.now < challenge.startDate
      THEN Throw(w, r, "not_started")
    ELSE IF challenge.endDate # NoDate /\ w.now > challenge.endDate
      THEN Throw(w, r, "ended")
    ELSE Ret(w, [r EXCEPT
           !.doc = [challenge EXCEPT
                      !.participants = Append(@, Participant(r.u))],
           !.pc = "j_save"])

\* a save that writes the new record at the head of the list (unshift)
JoinSaveUnshift(w, r) ==
  Ret([w EXCEPT !.challenges[r.c].participants =
                   <<r.doc.participants[Len(r.doc.participants)]>> \o @,
                !.challenges[r.c].v = @ + 1],
      [r EXCEPT !.pc = "j_inc"])

\* challenge.save() after participants.push: $push of the new record
JoinSave(w, r) ==
  Ret([w EXCEPT !.challenges[r.c].participants =
                   Append(@, r.doc.participants[Len(r.doc.participants)]),
                !.challenges[r.c].v = @ + 1],
      [r EXCEPT !.pc = "j_inc"])

JoinInc(w, r) ==
  Return([w EXCEPT !.users[r.u].stats.totalChallenges = @ + 1], r)

\* --------------------------------------------------- leaveChallenge
\* leaveChallenge without the completedAt test
LeaveFindCompletedToo(w, r) ==
  IF r.c \notin DOMAIN w.challenges THEN Throw(w, r, "challenge_not_found")
  ELSE LET challenge == w.challenges[r.c]
           participantIndex == findIndex(challenge, r.u) IN
    IF participantIndex = 0 THEN Throw(w, r, "not_participating")
    ELSE Ret(w, [r EXCEPT
           !.doc = [challenge EXCEPT
                      !.participants = SubSeq(@, 1, participantIndex - 1)
                                       \o SubSeq(@, participantIndex + 1, Len(@))],
           !.idx = participantIndex,
           !.pc = "l_save"])

LeaveFind(w, r) ==
  IF r.c \notin DOMAIN w.challenges THEN Throw(w, r, "challenge_not_found")
  ELSE LET challenge == w.challenges[r.c]
           participantIndex == findIndex(challenge, r.u) IN
    IF participantIndex = 0 THEN Throw(w, r, "not_participating")
    ELSE IF challenge.participants[participantIndex].completedAt # NoDate
      THEN Throw(w, r, "already_completed")
    ELSE Ret(w, [r EXCEPT
           !.doc = [challenge EXCEPT
                      !.participants = SubSeq(@, 1, participantIndex - 1)
                                       \o SubSeq(@, participantIndex + 1, Len(@))],
           !.idx = participantIndex,
           !.pc = "l_save"])

\* challenge.save() after participants.splice: $set of the whole list,
\* guarded by the version read
LeaveSave(w, r) ==
  IF w.challenges[r.c].v # r.doc.v THEN Throw(w, r, "version_error")
  ELSE Ret([w EXCEPT !.challenges[r.c].participants = r.doc.participants,
                     !.challenges[r.c].v = @ + 1],
           [r EXCEPT !.pc = "l_inc"])

LeaveInc(w, r) ==
  Return([w EXCEPT !.users[r.u].stats.totalChallenges = @ - 1], r)

\* --------------------------------------------------- updateProgress
ProgressFind(w, r) ==
  IF r.c \notin DOMAIN w.challenges THEN Throw(w, r, "challenge_not_found")
  ELSE LET challenge == w.challenges[r.c]
           index == findIndex(challenge, r.u) IN
    IF index = 0 THEN Throw(w, r, "not_participating")
    ELSE LET participant == challenge.participants[index]
             progress == clamp(r.arg)
             completing == progress = 100 /\ participant.completedAt = NoDate
         IN Ret(w, [r EXCEPT
              !.doc = [challenge EXCEPT
                         !.participants[index].progress = progress,
                         !.participants[index].completedAt =
                            IF completing THEN w.now ELSE @],
              !.idx = index,
              !.old = participant,
              !.pc = IF completing THEN "p_inc" ELSE "p_save"])

\* User.findByIdAndUpdate($inc completedChallenges, score); the user exists,
\* so checkAndAwardBadges is called next
ProgressInc(w, r) ==
  Ret([w EXCEPT !.users[r.u].stats.completedChallenges = @ + 1,
                !.users[r.u].stats.score = @ + r.doc.points],
      [r EXCEPT !.pc = "cb_findUser", !.ret = "p"])

\* challenge.save() after assignments to the participant's fields:
\* positional $set of the modified fields, guarded by the version read
ProgressSave(w, r) ==
  LET participant == r.doc.participants[r.idx]
      progressModified == participant.progress # r.old.progress
      completedModified == participant.completedAt # r.old.completedAt
  IN IF ~(progressModified \/ completedModified) THEN Return(w, r)
     ELSE IF w.challenges[r.c].v # r.doc.v THEN Throw(w, r, "version_error")
     ELSE Return([w EXCEPT
            !.challenges[r.c].participants[r.idx].progress =
               IF progressModified THEN participant.progress ELSE @,
            !.challenges[r.c].participants[r.idx].completedAt =
               IF completedModified THEN participant.completedAt ELSE @], r)

\* ---------------------------------------------------- inviteFriends
InviteFindChallenge(w, r) ==
  IF r.c \notin DOMAIN w.challenges THEN Throw(w, r, "challenge_not_found")
  ELSE Ret(w, [r EXCEPT !.doc = w.challenges[r.c], !.pc = "i_findInviter"])

InviteFindInviter(w, r) ==
  IF ~hasParticipant(r.doc, r.u) THEN Throw(w, r, "must_participate")
  ELSE Ret(w, [r EXCEPT !.udoc = w.users[r.u], !.pc = "i_findFriends"])

\* a loop that does not test the sender's friend list
InviteLoopAnyUser(w, r, k) ==
  IF k > Len(r.found) THEN Return(w, r)
  ELSE Ret(w, [r EXCEPT !.i = k, !.pc = "i_findInvitation"])

\* the head of the loop body for validFriends[k], up to its first await
InviteLoop(w, r, k) ==
  IF k > Len(r.found) THEN Return(w, r)
  ELSE IF r.found[k] \notin r.udoc.friends THEN Throw(w, r, "not_friend")
  ELSE Ret(w, [r EXCEPT !.i = k, !.pc = "i_findInvitation"])

\* User.find({ _id: { $in: friendIds } })
InviteFindFriends(w, r) ==
  LET validFriends == SelectSeq(UserOrder,
        LAMBDA f : f \in DOMAIN w.users /\ \E k \in 1..Len(r.list) : r.list[k] = f)
  IN IF Len(validFriends) # Len(r.list) THEN Throw(w, r, "users_not_found")
     ELSE InviteLoop(w, [r EXCEPT !.found = validFriends], 1)

\* the two tests without the one on the participant list
InviteFindInvitationPendingOnly(w, r) ==
  LET friend == r.found[r.i] IN
  IF \E inv \in BagToSet(w.invitations) :
        inv.challenge = r.c /\ inv.recipient = friend
    THEN Throw(w, r, "already_invited")
  ELSE Goto(w, r, "i_create")

\* Invitation.findOne({ challenge, recipient, status: 'pending' })
InviteFindInvitation(w, r) ==
  LET friend == r.found[r.i] IN
  IF \E inv \in BagToSet(w.invitations) :
        inv.challenge = r.c /\ inv.recipient = friend
    THEN Throw(w, r, "already_invited")
  ELSE IF hasParticipant(r.doc, friend) THEN Throw(w, r, "already_participating")
  ELSE Goto(w, r, "i_create")

\* Invitation.create on a collection without the unique index
InviteCreateNoIndex(w, r) ==
  InviteLoop([w EXCEPT !.invitations =
                 @ (+) SetToBag({Invitation(r.c, r.u, r.found[r.i])})],
             r, r.i + 1)

\* Invitation.create; the unique index on (challenge, recipient) rejects a
\* second document for the pair
InviteCreate(w, r) ==
  IF \E inv \in BagToSet(w.invitations) :
        inv.challenge = r.c /\ inv.recipient = r.found[r.i]
    THEN Throw(w, r, "duplicate_key")
  ELSE InviteLoop([w EXCEPT !.invitations =
                      @ (+) SetToBag({Invitation(r.c, r.u, r.found[r.i])})],
                  r, r.i + 1)

\* -------------------------------------------------- acceptInvitation
\* Invitation.findOne({ _id, recipient: userId, status: 'pending' })
AcceptFindInvitation(w, r) ==
  IF ~(BagIn(r.inv, w.invitations) /\ r.inv.recipient = r.u)
    THEN Throw(w, r, "invitation_not_found")
  ELSE Goto(w, r, "ac_findChallenge")

AcceptFindChallenge(w, r) ==
  IF r.inv.challenge \notin DOMAIN w.challenges THEN Throw(w, r, "challenge_not_found")
  ELSE LET challenge == w.challenges[r.inv.challenge] IN
    IF hasParticipant(challenge, r.u) THEN Goto(w, r, "ac_cleanup")
    ELSE IF isFull(challenge) THEN Throw(w, r, "full")
    ELSE IF ~challenge.isActive THEN Throw(w, r, "inactive")
    ELSE Ret(w, [r EXCEPT
           !.doc = [challenge EXCEPT !.participants = Append(@, Participant(r.u))],
           !.pc = "ac_save"])

\* the already-participating branch without the deleteOne
AcceptCleanupKeep(w, r) ==
  Throw(w, r, "already_participating")

\* invitation.deleteOne() of an invitation whose recipient already joined
AcceptCleanup(w, r) ==
  Throw([w EXCEPT !.invitations = DeleteOne(@, r.inv)], r, "already_participating")

\* challenge.save() after participants.push: $push of the new record
AcceptSave(w, r) ==
  Ret([w EXCEPT !.challenges[r.inv.challenge].participants =
                   Append(@, r.doc.participants[Len(r.doc.participants)]),
                !.challenges[r.inv.challenge].v = @ + 1],
      [r EXCEPT !.pc = "ac_delete"])

AcceptDelete(w, r) ==
  Ret([w EXCEPT !.invitations = DeleteOne(@, r.inv)], [r EXCEPT !.pc = "ac_inc"])

\* acceptInvitation without the $inc of stats.totalChallenges
AcceptNoInc(w, r) == Return(w, r)

\* User.findByIdAndUpdate($inc totalChallenges)
AcceptInc(w, r) ==
  Return([w EXCEPT !.users[r.u].stats.totalChallenges = @ + 1], r)

\* -------------------------------------------------- rejectInvitation
RejectFindInvitation(w, r) ==
  IF ~(BagIn(r.inv, w.invitations) /\ r.inv.recipient = r.u)
    THEN Throw(w, r, "invitation_not_found")
  ELSE Goto(w, r, "rj_delete")

RejectDelete(w, r) ==
  Return([w EXCEPT !.invitations = DeleteOne(@, r.inv)], r)

\* ----------------------------------------------- checkAndAwardBadges
\* return of checkAndAwardBadges to its caller
CbReturn(w, r) ==
  IF r.ret = "p" THEN Ret(w, [r EXCEPT !.pc = "p_save", !.ret = "top"])
  ELSE Return(w, r)

\* an error thrown inside checkAndAwardBadges: createTraining catches and
\* logs it, updateProgress and the badge controller let it propagate
CbThrow(w, r, e) ==
  IF r.ret = "t" THEN Return(w, r) ELSE Throw(w, r, e)

\* user.badges.map(b => b._id.toString())
userBadgeIds(r) == {r.udoc.badges[k] : k \in 1..Len(r.udoc.badges)}

RECURSIVE SumPoints(_, _)
SumPoints(bdocs, ids) ==
  IF ids = <<>> THEN 0 ELSE bdocs[Head(ids)].points + SumPoints(bdocs, Tail(ids))

\* user.stats.score of the in-memory user after the awards made so far
LocalScore(r) == r.udoc.stats.score + SumPoints(r.bdocs, r.earned)

\* a snapshot that aliases the in-memory user (no toObject copy): its
\* stats.score follows the awards made during the loop
UserDataAliased(r) ==
  Obj([stats |-> Obj([totalChallenges |-> Num(r.udoc.stats.totalChallenges),
                      totalWorkoutMinutes |-> Num(r.udoc.stats.totalWorkoutMinutes),
                      score |-> Num(LocalScore(r)),
                      trainingCount |-> Num(r.tc),
                      completedChallenges |-> Num(r.cc),
                      totalTrainingMinutes |-> Num(r.tm)]),
       badges |-> Arr([k \in 1..Len(r.udoc.badges) |->
                        Obj([_id |-> Str(r.udoc.badges[k])])]),
       username |-> Str(r.u), isActive |-> Bool(TRUE),
       emailVerified |-> Bool(FALSE), gyms |-> Arr(<<>>)])

\* prepareUserData: the user as read (toObject) with the derived counts;
\* username, isActive, emailVerified and gyms hold their schema defaults,
\* which no modelled operation writes
UserData(r) ==
  Obj([stats |-> Obj([totalChallenges |-> Num(r.udoc.stats.totalChallenges),
                      totalWorkoutMinutes |-> Num(r.udoc.stats.totalWorkoutMinutes),
                      score |-> Num(r.udoc.stats.score),
                      trainingCount |-> Num(r.tc),
                      completedChallenges |-> Num(r.cc),
                      totalTrainingMinutes |-> Num(r.tm)]),
       badges |-> Arr([k \in 1..Len(r.udoc.badges) |->
                        Obj([_id |-> Str(r.udoc.badges[k])])]),
       username |-> Str(r.u), isActive |-> Bool(TRUE),
       emailVerified |-> Bool(FALSE), gyms |-> Arr(<<>>)])

\* a loop without the `userBadgeIds.includes` test
NextAwardOwnedToo(r, from) ==
  LET hits == {j \in from..Len(r.autos) :
                 checkUserEligibility(r.bdocs[r.autos[j]].rules, UserData(r))}
  IN IF hits = {} THEN 0 ELSE CHOOSE j \in hits : \A k \in hits : j <= k

\* the next badge of the loop, from position `from`, that is awarded:
\* not owned when the user was read, and eligible on the snapshot
NextAward(r, from) ==
  LET hits == {j \in from..Len(r.autos) :
                 /\ r.autos[j] \notin userBadgeIds(r)
                 /\ checkUserEligibility(r.bdocs[r.autos[j]].rules, UserData(r))}
  IN IF hits = {} THEN 0 ELSE CHOOSE j \in hits : \A k \in hits : j <= k

\* User.findById(userId).populate('badges')
CbFindUser(w, r) ==
  Ret(w, [r EXCEPT !.udoc = w.users[r.u], !.earned = <<>>, !.pc = "cb_findBadges"])

\* Badge.find({ isActive: true }), the isAutomatic condition forgotten
CbFindBadgesActive(w, r) ==
  Ret(w, [r EXCEPT
        !.autos = SelectSeq(BadgeOrder,
                    LAMBDA b : b \in DOMAIN w.badges /\ w.badges[b].isActive),
        !.bdocs = w.badges,
        !.pc = "cb_countTrainings"])

\* Badge.find({ isActive: true, isAutomatic: true })
CbFindBadges(w, r) ==
  Ret(w, [r EXCEPT
        !.autos = SelectSeq(BadgeOrder,
                    LAMBDA b : b \in DOMAIN w.badges
                               /\ w.badges[b].isActive /\ w.badges[b].isAutomatic),
        !.bdocs = w.badges,
        !.pc = "cb_countTrainings"])

\* Training.countDocuments({ user })
CbCountTrainings(w, r) ==
  Ret(w, [r EXCEPT !.tc = w.trainings[r.u], !.pc = "cb_countChallenges"])

\* Challenge.countDocuments({ 'participants.user': user,
\*                            'participants.completedAt': { $exists: true } })
\* the two conditions are matched against the array independently
CbCountChallenges(w, r) ==
  Ret(w, [r EXCEPT
        !.cc = Cardinality({c \in DOMAIN w.challenges :
                 /\ \E k \in 1..Len(w.challenges[c].participants) :
                       w.challenges[c].participants[k].user = r.u
                 /\ \E k \in 1..Len(w.challenges[c].participants) :
                       w.challenges[c].participants[k].completedAt # NoDate}),
        !.pc = "cb_findTrainings"])

\* Training.find({ user }) and the sum of totalDuration; the snapshot is
\* complete and the loop runs up to its first badge.save()
CbFindTrainings(w, r) ==
  LET r1 == [r EXCEPT !.tm = w.trainings[r.u] * TrainingDuration]
      j == NextAward(r1, 1)
  IN IF j = 0 THEN CbReturn(w, r1)
     ELSE Ret(w, [r1 EXCEPT !.i = j, !.pc = "cb_saveBadge"])

\* earnedBadges.push, user.badges.push, score += points, earnedCount += 1,
\* badge.save(); then the loop runs up to the next badge.save()
CbSaveBadge(w, r) ==
  LET b == r.autos[r.i]
      r1 == [r EXCEPT !.earned = Append(@, b)]
      j == NextAward(r1, r.i + 1)
  IN Ret([w EXCEPT !.badges[b].earnedCount = r.bdocs[b].earnedCount + 1],
         [r1 EXCEPT !.i = IF j = 0 THEN r.i ELSE j,
                    !.pc = IF j = 0 THEN "cb_saveUser" ELSE "cb_saveBadge"])

\* user.save(): $push of the pushed badge ids, $set of stats.score
CbSaveUser(w, r) ==
  CbReturn([w EXCEPT !.users[r.u].badges = @ \o r.earned,
                     !.users[r.u].stats.score = LocalScore(r),
                     !.users[r.u].v = @ + 1], r)

\* --------------------------------------------------- createTraining
\* Training.create
TrainingCreate(w, r) ==
  Ret([w EXCEPT !.trainings[r.u] = @ + 1], [r EXCEPT !.pc = "t_inc"])

\* User.findByIdAndUpdate($inc totalWorkoutMinutes); then
\* try { checkAndAwardBadges } catch { console.error }
TrainingInc(w, r) ==
  Ret([w EXCEPT !.users[r.u].stats.totalWorkoutMinutes = @ + TrainingDuration],
      [r EXCEPT !.pc = "cb_findUser", !.ret = "t"])

\* -------------------------------------------------- awardBadgeToUser
\* Promise.all([Badge.findById, User.findById]): the two reads complete in
\* either order (r.ord)
AwardReadBadge(w, r) ==
  IF r.b \in DOMAIN w.badges
  THEN [r EXCEPT !.bdoc = w.badges[r.b], !.bfound = TRUE]
  ELSE [r EXCEPT !.bfound = FALSE]

AwardReadUser(w, r) == [r EXCEPT !.udoc = w.users[r.u]]

AwardFind1(w, r) ==
  Goto(w, IF r.ord = 0 THEN AwardReadBadge(w, r) ELSE AwardReadUser(w, r), "a_find2")

AwardFind2(w, r) ==
  LET r1 == IF r.ord = 0 THEN AwardReadUser(w, r) ELSE AwardReadBadge(w, r) IN
  IF ~r1.bfound THEN Throw(w, r1, "badge_not_found")
  ELSE IF r.b \in userBadgeIds(r1) THEN Throw(w, r1, "already_owned")
  ELSE Goto(w, r1, "a_save1")

\* an award that pushes the badge id and leaves the score as it is
AwardSaveUserNoPoints(w, r) ==
  [w EXCEPT !.users[r.u].badges = Append(@, r.b),
            !.users[r.u].v = @ + 1]

\* user.save(): $push of the badge id, $set of stats.score
AwardSaveUser(w, r) ==
  [w EXCEPT !.users[r.u].badges = Append(@, r.b),
            !.users[r.u].stats.score = r.udoc.stats.score + r.bdoc.points,
            !.users[r.u].v = @ + 1]

\* badge.save(): $set of earnedCount
AwardSaveBadge(w, r) ==
  [w EXCEPT !.badges[r.b].earnedCount = r.bdoc.earnedCount + 1]

\* Promise.all([user.save(), badge.save()]): either order (r.ord)
AwardSave1(w, r) ==
  Goto(IF r.ord = 0 THEN AwardSaveUser(w, r) ELSE AwardSaveBadge(w, r), r, "a_save2")

AwardSave2(w, r) ==
  Return(IF r.ord = 0 THEN AwardSaveBadge(w, r) ELSE AwardSaveUser(w, r), r)

\* ----------------------------------------------- removeBadgeFromUser
\* Promise.all([Badge.findById, User.findById]): either order (r.ord)
RemoveFind1(w, r) ==
  Goto(w, IF r.ord = 0 THEN AwardReadBadge(w, r) ELSE AwardReadUser(w, r), "rm_find2")

\* user.badges.findIndex; 0 when the badge is not in the list
badgeIndex(udoc, b) ==
  IF b \in Range(udoc.badges)
  THEN CHOOSE i \in 1..Len(udoc.badges) :
         /\ udoc.badges[i] = b
         /\ \A j \in 1..(i - 1) : udoc.badges[j] # b
  ELSE 0

RemoveFind2(w, r) ==
  LET r1 == IF r.ord = 0 THEN AwardReadUser(w, r) ELSE AwardReadBadge(w, r) IN
  IF ~r1.bfound THEN Throw(w, r1, "badge_not_found")
  ELSE IF badgeIndex(r1.udoc, r.b) = 0 THEN Throw(w, r1, "not_owned")
  ELSE Goto(w, [r1 EXCEPT !.idx = badgeIndex(r1.udoc, r.b)], "rm_save1")

\* a revoke that leaves the score as it is
RemoveSaveUserKeepScore(w, r) ==
  IF w.users[r.u].v # r.udoc.v THEN Ret(w, [r EXCEPT !.err = "version_error"])
  ELSE Ret([w EXCEPT
              !.users[r.u].badges = SubSeq(r.udoc.badges, 1, r.idx - 1)
                                    \o SubSeq(r.udoc.badges, r.idx + 1, Len(r.udoc.badges)),
              !.users[r.u].v = @ + 1], r)

\* user.save() after badges.splice and score -= points: $set of the whole
\* list, guarded by the version read, and $set of stats.score
RemoveSaveUser(w, r) ==
  IF w.users[r.u].v # r.udoc.v THEN Ret(w, [r EXCEPT !.err = "version_error"])
  ELSE Ret([w EXCEPT
              !.users[r.u].badges = SubSeq(r.udoc.badges, 1, r.idx - 1)
                                    \o SubSeq(r.udoc.badges, r.idx + 1, Len(r.udoc.badges)),
              !.users[r.u].stats.score = r.udoc.stats.score - r.bdoc.points,
              !.users[r.u].v = @ + 1], r)

\* badge.save() after earnedCount = Math.max(0, earnedCount - 1)
RemoveSaveBadge(w, r) ==
  IF r.b \notin DOMAIN w.badges THEN Ret(w, r)
  ELSE Ret([w EXCEPT !.badges[r.b].earnedCount = Max(0, r.bdoc.earnedCount - 1)], r)

\* Promise.all([user.save(), badge.save()]): either order (r.ord); a
\* rejected save does not stop the other
RemoveSave1(w, r) ==
  LET s == IF r.ord = 0 THEN RemoveSaveUser(w, r) ELSE RemoveSaveBadge(w, r)
  IN Goto(s.w, s.r, "rm_save2")

RemoveSave2(w, r) ==
  LET s == IF r.ord = 0 THEN RemoveSaveBadge(w, r) ELSE RemoveSaveUser(w, r)
  IN IF s.r.err = "ok" THEN Return(s.w, s.r) ELSE Throw(s.w, s.r, s.r.err)

\* ------------------------------------------------------- deleteBadge
\* Badge.findById
DeleteFind(w, r) ==
  IF r.b \notin DOMAIN w.badges THEN Throw(w, r, "badge_not_found")
  ELSE Goto(w, r, "d_pull")

\* an updateMany that also takes the badge's points back
DeletePullRefund(w, r) ==
  Goto([w EXCEPT !.users = [u \in DOMAIN w.users |->
          [w.users[u] EXCEPT
             !.badges = SelectSeq(@, LAMBDA b : b # r.b),
             !.stats.score = IF r.b \in Range(w.users[u].badges)
                             THEN @ - w.badges[r.b].points ELSE @]]],
       r, "d_delete")

\* User.updateMany({ badges: badgeId }, { $pull: { badges: badgeId } })
DeletePull(w, r) ==
  Goto([w EXCEPT !.users = [u \in DOMAIN w.users |->
          [w.users[u] EXCEPT !.badges = SelectSeq(@, LAMBDA b : b # r.b)]]],
       r, "d_delete")

\* badge.deleteOne()
DeleteBadgeDoc(w, r) ==
  Return([w EXCEPT !.badges = [b \in DOMAIN w.badges \ {r.b} |-> w.badges[b]]], r)

\* ------------------------------------- createBadge, updateBadge
\* the schema's validators on rules: a non-empty list, each rule with a
\* type, a field, an operator of the enum and a value; value2 is a plain
\* Mixed path with no validator
Operators == {"equals", "greater_than", "less_than", "contains", "between"}

schemaValid(rules) ==
  /\ Len(rules) > 0
  /\ \A k \in 1..Len(rules) :
       /\ rules[k].operator \in Operators
       /\ rules[k].value \notin {Undef, Null}

\* the loop of BadgeController.createCustomBadge over the rules
customValid(rules) ==
  /\ Len(rules) > 0
  /\ \A k \in 1..Len(rules) :
       /\ rules[k].value # Undef
       /\ rules[k].operator \in Operators
       /\ ~(rules[k].operator = "between" /\ rules[k].value2 = Undef)

\* BadgeController.createCustomBadge before it calls the service
CustomCheck(w, r) ==
  IF ~customValid(r.list) THEN Throw(w, r, "validation")
  ELSE Goto(w, r, "bc_find")

\* Badge.findOne({ name }): the name of a badge is its identity here
CreateFind(w, r) ==
  IF r.b \in DOMAIN w.badges THEN Throw(w, r, "name_exists")
  ELSE Goto(w, r, "bc_create")

\* Badge.create({ ...data, createdBy })
CreateBadgeDoc(w, r) ==
  IF ~schemaValid(r.list) THEN Throw(w, r, "validation")
  ELSE Return([w EXCEPT !.badges =
                 [b \in DOMAIN w.badges \cup {r.b} |->
                    IF b = r.b THEN BadgeDoc(r.list, r.arg, TRUE, TRUE)
                    ELSE w.badges[b]]], r)

\* Badge.findByIdAndUpdate(badgeId, { $set: data }, { runValidators: true })
\* with data = { rules }
UpdateBadgeDoc(w, r) ==
  IF ~schemaValid(r.list) THEN Throw(w, r, "validation")
  ELSE IF r.b \notin DOMAIN w.badges THEN Throw(w, r, "badge_not_found")
  ELSE Return([w EXCEPT !.badges[r.b].rules = r.list], r)

\* ------------------------------------------------------------ stepping
\* one store call of request r on store w
Step(w, r) ==
  IF r.fail = r.pc
  THEN \* the store call is rejected
       LET t == CbThrow(w, r, "store_error")
       IN Ret(t.w, [t.r EXCEPT !.injected = TRUE])
  ELSE CASE r.pc = "j_find" -> JoinFind(w, r)
         [] r.pc = "j_save" -> JoinSave(w, r)
         [] r.pc = "j_inc" -> JoinInc(w, r)
         [] r.pc = "l_find" -> LeaveFind(w, r)
         [] r.pc = "l_save" -> LeaveSave(w, r)
         [] r.pc = "l_inc" -> LeaveInc(w, r)
         [] r.pc = "p_find" -> ProgressFind(w, r)
         [] r.pc = "p_inc" -> ProgressInc(w, r)
         [] r.pc = "p_save" -> ProgressSave(w, r)
         [] r.pc = "cb_findUser" -> CbFindUser(w, r)
         [] r.pc = "cb_findBadges" -> CbFindBadges(w, r)
         [] r.pc = "cb_countTrainings" -> CbCountTrainings(w, r)
         [] r.pc = "cb_countChallenges" -> CbCountChallenges(w, r)
         [] r.pc = "cb_findTrainings" -> CbFindTrainings(w, r)
         [] r.pc = "cb_saveBadge" -> CbSaveBadge(w, r)
         [] r.pc = "cb_saveUser" -> CbSaveUser(w, r)
         [] r.pc = "t_create" -> TrainingCreate(w, r)
         [] r.pc = "t_inc" -> TrainingInc(w, r)
         [] r.pc = "a_find1" -> AwardFind1(w, r)
         [] r.pc = "a_find2" -> AwardFind2(w, r)
         [] r.pc = "a_save1" -> AwardSave1(w, r)
         [] r.pc = "a_save2" -> AwardSave2(w, r)
         [] r.pc = "rm_find1" -> RemoveFind1(w, r)
         [] r.pc = "rm_find2" -> RemoveFind2(w, r)
         [] r.pc = "rm_save1" -> RemoveSave1(w, r)
         [] r.pc = "rm_save2" -> RemoveSave2(w, r)
         [] r.pc = "d_find" -> DeleteFind(w, r)
         [] r.pc = "d_pull" -> DeletePull(w, r)
         [] r.pc = "d_delete" -> DeleteBadgeDoc(w, r)
         [] r.pc = "bcc_check" -> CustomCheck(w, r)
         [] r.pc = "bc_find" -> CreateFind(w, r)
         [] r.pc = "bc_create" -> CreateBadgeDoc(w, r)
         [] r.pc = "bu_update" -> UpdateBadgeDoc(w, r)
         [] r.pc = "i_findChallenge" -> InviteFindChallenge(w, r)
         [] r.pc = "i_findInviter" -> InviteFindInviter(w, r)
         [] r.pc = "i_findFriends" -> InviteFindFriends(w, r)
         [] r.pc = "i_findInvitation" -> InviteFindInvitation(w, r)
         [] r.pc = "i_create" -> InviteCreate(w, r)
         [] r.pc = "ac_findInvitation" -> AcceptFindInvitation(w, r)
         [] r.pc = "ac_findChallenge" -> AcceptFindChallenge(w, r)
         [] r.pc = "ac_cleanup" -> AcceptCleanup(w, r)
         [] r.pc = "ac_save" -> AcceptSave(w, r)
         [] r.pc = "ac_delete" -> AcceptDelete(w, r)
         [] r.pc = "ac_inc" -> AcceptInc(w, r)
         [] r.pc = "rj_find" -> RejectFindInvitation(w, r)
         [] r.pc = "rj_delete" -> RejectDelete(w, r)

\* the handler run to its return or throw, no other request in between
\* (each Step is evaluated once, as the element of a singleton)
RECURSIVE Run(_, _)
Run(w, r) ==
  IF r.pc = "done" THEN Ret(w, r)
  ELSE CHOOSE res \in {Run(s.w, s.r) : s \in {Step(w, r)}} : TRUE

\* ------------------------------------------------------ initial store
\* progress values sent to updateProgress
ProgressInputs == {-5, 100, 150}

Field(a, b) == <<a, b>>

InitBadges(manualActive, manualAutomatic) ==
  [b \in Badges |->
     CASE b = "b1" ->
            BadgeDoc(<<Rule(Field("stats", "completedChallenges"), "greater_than",
                            Num(0), Undef)>>, 5, TRUE, TRUE)
       [] b = "b2" ->
            BadgeDoc(<<Rule(Field("stats", "trainingCount"), "greater_than",
                            Num(0), Undef),
                       Rule(Field("stats", "score"), "between",
                            Num(13), Num(1000))>>, 3, TRUE, TRUE)
       [] b = "b3" ->
            BadgeDoc(<<Rule(Field("stats", "totalChallenges"), "greater_than",
                            Num(0), Undef)>>, 7, manualActive, manualAutomatic)]

InitWith(initBadges) ==
  /\ challenges = [c \in Challenges |->
       IF c = "c1" THEN ChallengeDoc(TRUE, 10, 1, 2, NoDate)
       ELSE ChallengeDoc(TRUE, 20, NoMax, NoDate, 1)]
  /\ users = [u \in Users |-> UserDoc(Users \ {u})]
  /\ initBadges
  /\ trainings = [u \in Users |-> 0]
  /\ invitations = EmptyBag
  /\ now = 1
  /\ reqs = [s \in 1..NSlots |-> Idle]
  /\ fails = 0
  /\ calls100 = {}

Init == InitWith(badges = InitBadges(TRUE, FALSE))

\* ------------------------------------------- handlers run one at a time
\* pairs (challenge, user) whose current participant record has received an
\* updateProgress call with clamped value 100
Calls100After(r) ==
  IF r.op = "updateProgress" /\ r.idx # 0 /\ clamp(r.arg) = 100
    THEN calls100 \cup {<<r.c, r.u>>}
  ELSE IF r.op = "leaveChallenge" /\ r.err = "ok"
    THEN calls100 \ {<<r.c, r.u>>}
  ELSE calls100

\* A document version is only ever compared with the version a request in
\* flight has read.  When no request is in flight its value is immaterial,
\* and it is counted from 0 again to keep the versions bounded.
Quiesce(docs) == [d \in DOMAIN docs |-> [docs[d] EXCEPT !.v = 0]]

\* the outcome of a handler becomes the next store (the outcome is bound
\* once, as the element of a singleton)
Commit(outcome) ==
  \E res \in {outcome} :
  /\ challenges' = Quiesce(res.w.challenges)
  /\ users' = Quiesce(res.w.users)
  /\ badges' = res.w.badges
  /\ trainings' = res.w.trainings
  /\ invitations' = res.w.invitations
  /\ fails' = fails + (IF res.r.injected THEN 1 ELSE 0)
  /\ calls100' = Calls100After(res.r)
  /\ UNCHANGED <<now, reqs>>

AllIdle == \A s \in 1..NSlots : reqs[s].op = "idle"

\* the requests of the service's entry points
JoinReq(c, u) == NewReq("joinChallenge", "j_find", c, u, "", 0, "none", 0)
LeaveReq(c, u) == NewReq("leaveChallenge", "l_find", c, u, "", 0, "none", 0)
ProgressReq(c, u, progress, fail) ==
  NewReq("updateProgress", "p_find", c, u, "", progress, fail, 0)
CheckReq(u, fail) == NewReq("checkAndAwardBadges", "cb_findUser", "", u, "", 0, fail, 0)
TrainingReq(u, fail) == NewReq("createTraining", "t_create", "", u, "", 0, fail, 0)
AwardReq(b, u, ord) == NewReq("awardBadgeToUser", "a_find1", "", u, b, 0, "none", ord)
RemoveReq(b, u, ord) ==
  NewReq("removeBadgeFromUser", "rm_find1", "", u, b, 0, "none", ord)
DeleteReq(b) == NewReq("deleteBadge", "d_find", "", "", b, 0, "none", 0)
CreateBadgeReq(b, rules, points) ==
  [NewReq("createBadge", "bc_find", "", "", b, points, "none", 0)
     EXCEPT !.list = rules]
CreateCustomBadgeReq(b, rules, points) ==
  [NewReq("createCustomBadge", "bcc_check", "", "", b, points, "none", 0)
     EXCEPT !.list = rules]
UpdateBadgeReq(b, rules) ==
  [NewReq("updateBadge", "bu_update", "", "", b, 0, "none", 0)
     EXCEPT !.list = rules]
InviteReq(c, u, friendIds) ==
  [NewReq("inviteFriends", "i_findChallenge", c, u, "", 0, "none", 0)
     EXCEPT !.list = friendIds]
AcceptReq(inv, u) ==
  [NewReq("acceptInvitation", "ac_findInvitation", inv.challenge, u, "", 0, "none", 0)
     EXCEPT !.inv = inv]
RejectReq(inv, u) ==
  [NewReq("rejectInvitation", "rj_find", inv.challenge, u, "", 0, "none", 0)
     EXCEPT !.inv = inv]

\* store calls of checkAndAwardBadges that may be rejected
FailPoints == {"cb_findUser", "cb_saveUser"}

\* friendIds lists sent to inviteFriends
FriendLists == {<<"u1">>, <<"u2">>, <<"u1", "u2">>, <<"ux">>}

\* every invitation a request may name
Invitations ==
  {Invitation(c, s, rcp) : c \in Challenges, s \in Users, rcp \in Users}

joinChallenge ==
  /\ AllIdle
  /\ \E c \in ChallengeIds, u \in Users : Commit(Run(World, JoinReq(c, u)))

leaveChallenge ==
  /\ AllIdle
  /\ \E c \in ChallengeIds, u \in Users : Commit(Run(World, LeaveReq(c, u)))

updateProgress ==
  /\ AllIdle
  /\ \E c \in ChallengeIds, u \in Users, progress \in ProgressInputs :
       Commit(Run(World, ProgressReq(c, u, progress, "none")))

\* updateProgress while the store rejects a call of checkAndAwardBadges
updateProgressStoreError ==
  /\ AllIdle
  /\ fails < MaxFails
  /\ \E c \in Challenges, u \in Users, progress \in ProgressInputs, fail \in FailPoints :
       Commit(Run(World, ProgressReq(c, u, progress, fail)))

inviteFriends ==
  /\ AllIdle
  /\ \E c \in ChallengeIds, u \in Users, friendIds \in FriendLists :
       Commit(Run(World, InviteReq(c, u, friendIds)))

acceptInvitation ==
  /\ AllIdle
  /\ \E inv \in Invitations, u \in Users : Commit(Run(World, AcceptReq(inv, u)))

rejectInvitation ==
  /\ AllIdle
  /\ \E inv \in Invitations, u \in Users : Commit(Run(World, RejectReq(inv, u)))

\* updateChallenge with body { isActive }: findByIdAndUpdate($set)
updateChallenge ==
  /\ AllIdle
  /\ \E isActive \in BOOLEAN :
       /\ challenges["c1"].isActive # isActive
       /\ challenges' = [challenges EXCEPT !["c1"].isActive = isActive]
       /\ UNCHANGED <<users, badges, trainings, invitations, now, reqs, fails, calls100>>

\* time passes
Tick ==
  /\ AllIdle
  /\ now < MaxTime
  /\ now' = now + 1
  /\ UNCHANGED <<store, reqs, fails, calls100>>

\* challenge participation, one request at a time
Next ==
  \/ joinChallenge
  \/ leaveChallenge
  \/ updateProgress
  \/ updateProgressStoreError
  \/ updateChallenge
  \/ Tick

Spec == Init /\ [][Next]_vars

\* challenge participation with invitations, one request at a time
NextInvite ==
  \/ joinChallenge
  \/ leaveChallenge
  \/ updateProgress
  \/ inviteFriends
  \/ acceptInvitation
  \/ rejectInvitation
  \/ Tick

SpecInvite == Init /\ [][NextInvite]_vars

\* ------------------------------------------------- the badge ledger
\* the user whose badges the ledger runs follow
LedgerUsers == {"u1"}

\* badge b3 is either manual (isAutomatic = false) or inactive
InitLedger ==
  /\ InitWith(\E flags \in {<<TRUE, FALSE>>, <<FALSE, TRUE>>} :
                badges = InitBadges(flags[1], flags[2]))

ledgerJoin ==
  /\ AllIdle
  /\ \E c \in Challenges, u \in LedgerUsers : Commit(Run(World, JoinReq(c, u)))

ledgerProgress ==
  /\ AllIdle
  /\ \E c \in Challenges, u \in LedgerUsers, progress \in ProgressInputs :
       Commit(Run(World, ProgressReq(c, u, progress, "none")))

\* createTraining; the store may reject a call of its checkAndAwardBadges
createTraining ==
  /\ AllIdle
  /\ \E u \in LedgerUsers, fail \in FailPoints \cup {"none"} :
       /\ trainings[u] < MaxTrainings
       /\ Commit(Run(World, TrainingReq(u, fail)))

checkAndAwardBadges ==
  /\ AllIdle
  /\ \E u \in LedgerUsers : Commit(Run(World, CheckReq(u, "none")))

awardBadgeToUser ==
  /\ AllIdle
  /\ \E b \in Badges \cup {"bx"}, u \in LedgerUsers, ord \in {0, 1} :
       Commit(Run(World, AwardReq(b, u, ord)))

NextLedger ==
  \/ ledgerJoin
  \/ ledgerProgress
  \/ createTraining
  \/ checkAndAwardBadges
  \/ awardBadgeToUser
  \/ Tick

SpecLedger == InitLedger /\ [][NextLedger]_vars

\* ------------------------------------------------- rules of a badge
\* the rule of badge b1 is drawn from these fields, operators and bounds
RuleFields ==
  {Field("stats", "score"), Field("stats", "missing"), <<"username">>,
   <<"isActive">>, <<"emailVerified">>, <<"gyms">>, <<"badges">>}

RuleOperators == {"between", "greater_than", "less_than"}

RuleBounds == {<<0, 1>>, <<5, 20>>, <<20, 5>>}

RuleInputs ==
  {Rule(f, op, Num(vs[1]), Num(vs[2])) :
     f \in RuleFields, op \in RuleOperators, vs \in RuleBounds}

InitRule ==
  InitWith(\E rule \in RuleInputs :
             badges = [InitBadges(TRUE, FALSE) EXCEPT !["b1"].rules = <<rule>>])

NextRule ==
  \/ ledgerJoin
  \/ ledgerProgress
  \/ checkAndAwardBadges

SpecRule == InitRule /\ [][NextRule]_vars

\* ------------------------------------------- rule lists of a badge
\* the rules of badge b1 are a list of at most two rules over these fields
\* (resolving, last key absent, first key absent, first key a string, the
\* length of a list) and every operator
EligibilityFields ==
  {Field("stats", "score"), Field("stats", "missing"), Field("profile", "age"),
   Field("username", "length"), Field("badges", "length")}

EligibilityRules ==
  {Rule(f, op, Num(0), IF op = "between" THEN Num(1000) ELSE Undef) :
     f \in EligibilityFields, op \in Operators}

EligibilityRuleLists ==
  {<<>>} \cup {<<rule>> : rule \in EligibilityRules}
        \cup {<<r1, r2>> : r1 \in EligibilityRules, r2 \in EligibilityRules}

InitEligibility ==
  InitWith(\E rules \in EligibilityRuleLists :
             badges = [InitBadges(TRUE, FALSE) EXCEPT !["b1"].rules = rules])

NextEligibility ==
  \/ ledgerJoin
  \/ ledgerProgress
  \/ checkAndAwardBadges

SpecEligibility == InitEligibility /\ [][NextEligibility]_vars

\* --------------------------------------------- badge definitions
\* rules sent to createBadge, createCustomBadge and updateBadge
RuleDefs ==
  {Rule(Field("stats", "totalChallenges"), op, value, value2) :
     op \in {"between", "greater_than"}, value \in {Num(0), Undef},
     value2 \in {Num(1), Undef}}

RuleLists == {<<>>} \cup {<<rule>> : rule \in RuleDefs}

BadgeNames == {"b1", "b3"}

createBadge ==
  /\ AllIdle
  /\ \E b \in BadgeNames, rules \in RuleLists :
       Commit(Run(World, CreateBadgeReq(b, rules, 5)))

createCustomBadge ==
  /\ AllIdle
  /\ \E b \in BadgeNames, rules \in RuleLists :
       Commit(Run(World, CreateCustomBadgeReq(b, rules, 5)))

updateBadge ==
  /\ AllIdle
  /\ \E b \in BadgeNames, rules \in RuleLists :
       Commit(Run(World, UpdateBadgeReq(b, rules)))

\* a store where the badges of BadgeNames are still to be created
InitBadge ==
  InitWith(badges = [b \in Badges \ BadgeNames |-> InitBadges(TRUE, FALSE)[b]])

NextBadge ==
  \/ createBadge
  \/ createCustomBadge
  \/ updateBadge
  \/ ledgerJoin
  \/ checkAndAwardBadges

SpecBadge == InitBadge /\ [][NextBadge]_vars

\* ----------------------------------------------- badge administration
adminAward ==
  /\ AllIdle
  /\ \E b \in Badges, u \in Users, ord \in {0, 1} :
       Commit(Run(World, AwardReq(b, u, ord)))

removeBadgeFromUser ==
  /\ AllIdle
  /\ \E b \in Badges, u \in Users, ord \in {0, 1} :
       Commit(Run(World, RemoveReq(b, u, ord)))

deleteBadge ==
  /\ AllIdle
  /\ \E b \in Badges : Commit(Run(World, DeleteReq(b)))

NextAdmin ==
  \/ ledgerJoin
  \/ ledgerProgress
  \/ adminAward
  \/ removeBadgeFromUser
  \/ deleteBadge

SpecAdmin == Init /\ [][NextAdmin]_vars

\* ------------------------------------------------- earnedCount
\* checkAndAwardBadges while the store rejects one of its calls
checkAndAwardBadgesStoreError ==
  /\ AllIdle
  /\ fails < MaxFails
  /\ \E u \in LedgerUsers, fail \in FailPoints :
       Commit(Run(World, CheckReq(u, fail)))

NextCount ==
  \/ ledgerJoin
  \/ ledgerProgress
  \/ checkAndAwardBadges
  \/ checkAndAwardBadgesStoreError
  \/ adminAward
  \/ removeBadgeFromUser

SpecCount == Init /\ [][NextCount]_vars

\* ------------------------------------------------- the score ledger
revokeBadge ==
  /\ AllIdle
  /\ \E b \in Badges, u \in LedgerUsers, ord \in {0, 1} :
       Commit(Run(World, RemoveReq(b, u, ord)))

\* the store after u1 joined c2 and invited u2 to it at time 1 and joined
\* c1 at time 2
ScoreWorld ==
  LET w0 == [challenges |-> [c \in Challenges |->
                IF c = "c1" THEN ChallengeDoc(TRUE, 10, 1, 2, NoDate)
                ELSE ChallengeDoc(TRUE, 20, NoMax, NoDate, 1)],
             users |-> [u \in Users |-> UserDoc(Users \ {u})],
             badges |-> InitBadges(TRUE, FALSE),
             trainings |-> [u \in Users |-> 0],
             invitations |-> EmptyBag,
             now |-> 1]
      w1 == Run(w0, JoinReq("c2", "u1")).w
      w2 == Run(w1, InviteReq("c2", "u1", <<"u2">>)).w
      w3 == Run([w2 EXCEPT !.now = 2], JoinReq("c1", "u1")).w
  IN w3

InitScore ==
  /\ challenges = Quiesce(ScoreWorld.challenges)
  /\ users = Quiesce(ScoreWorld.users)
  /\ badges = ScoreWorld.badges
  /\ trainings = ScoreWorld.trainings
  /\ invitations = ScoreWorld.invitations
  /\ now = ScoreWorld.now
  /\ reqs = [s \in 1..NSlots |-> Idle]
  /\ fails = 0
  /\ calls100 = {}

\* every operation that moves stats.score or the participant lists
NextScore ==
  \/ joinChallenge
  \/ leaveChallenge
  \/ updateProgress
  \/ acceptInvitation
  \/ checkAndAwardBadges
  \/ awardBadgeToUser
  \/ revokeBadge

SpecScore == InitScore /\ [][NextScore]_vars

\* --------------------------------------- requests interleaved at awaits
\* the store after u1 joined and completed c2 at time 1 and joined c1 at
\* time 2
RaceWorld ==
  LET w0 == [challenges |-> [c \in Challenges |->
                IF c = "c1" THEN ChallengeDoc(TRUE, 10, 1, 2, NoDate)
                ELSE ChallengeDoc(TRUE, 20, NoMax, NoDate, 1)],
             users |-> [u \in Users |-> UserDoc(Users \ {u})],
             badges |-> InitBadges(TRUE, FALSE),
             trainings |-> [u \in Users |-> 0],
             invitations |-> EmptyBag,
             now |-> 1]
      w1 == Run(w0, JoinReq("c2", "u1")).w
      w2 == Run(w1, ProgressReq("c2", "u1", 100, "none")).w
      w3 == Run([w2 EXCEPT !.now = 2], JoinReq("c1", "u1")).w
  IN w3

InitRace ==
  /\ challenges = Quiesce(RaceWorld.challenges)
  /\ users = Quiesce(RaceWorld.users)
  /\ badges = RaceWorld.badges
  /\ trainings = RaceWorld.trainings
  /\ invitations = RaceWorld.invitations
  /\ now = RaceWorld.now
  /\ reqs = [s \in 1..NSlots |-> Idle]
  /\ fails = 0
  /\ calls100 = {}

\* the requests that race
RaceReqs ==
  {LeaveReq("c1", "u1"), ProgressReq("c1", "u1", 100, "none"), CheckReq("u1", "none")}
  \cup {AwardReq("b1", "u1", ord) : ord \in {0, 1}}

\* a request arrives
Start ==
  \E s \in 1..NSlots, r \in RaceReqs :
    /\ reqs[s].op = "idle"
    /\ reqs' = [reqs EXCEPT ![s] = r]
    /\ UNCHANGED <<store, now, fails, calls100>>

\* the store call a request is suspended at completes
Resume ==
  \E s \in 1..NSlots :
    /\ reqs[s].op # "idle"
    /\ reqs[s].pc # "done"
    /\ LET res == Step(World, reqs[s]) IN
         /\ challenges' = res.w.challenges
         /\ users' = res.w.users
         /\ badges' = res.w.badges
         /\ trainings' = res.w.trainings
         /\ invitations' = res.w.invitations
         /\ reqs' = [reqs EXCEPT ![s] = res.r]
    /\ UNCHANGED <<now, fails, calls100>>

NextRace ==
  \/ Start
  \/ Resume

SpecRace == InitRace /\ [][NextRace]_vars

\* ----------------------------- joins and invitations interleaved at awaits
\* the store after u1 joined c2 at time 1, with the invitations `pending`
JoinRaceWorld(pending) ==
  LET w0 == [challenges |-> [c \in Challenges |->
                IF c = "c1" THEN ChallengeDoc(TRUE, 10, 1, 2, NoDate)
                ELSE ChallengeDoc(TRUE, 20, NoMax, NoDate, 1)],
             users |-> [u \in Users |-> UserDoc(Users \ {u})],
             badges |-> InitBadges(TRUE, FALSE),
             trainings |-> [u \in Users |-> 0],
             invitations |-> pending,
             now |-> 1]
  IN Run(w0, JoinReq("c2", "u1")).w

\* u2 has been invited to c2 by u1, or not yet
InitJoinRace ==
  \E pending \in {EmptyBag, SetToBag({Invitation("c2", "u1", "u2")})} :
    /\ challenges = Quiesce(JoinRaceWorld(pending).challenges)
    /\ users = Quiesce(JoinRaceWorld(pending).users)
    /\ badges = JoinRaceWorld(pending).badges
    /\ trainings = JoinRaceWorld(pending).trainings
    /\ invitations = JoinRaceWorld(pending).invitations
    /\ now = JoinRaceWorld(pending).now
    /\ reqs = [s \in 1..NSlots |-> Idle]
    /\ fails = 0
    /\ calls100 = {}

\* the requests that race
JoinRaceReqs ==
  {JoinReq("c2", "u2"),
   InviteReq("c2", "u1", <<"u2">>),
   AcceptReq(Invitation("c2", "u1", "u2"), "u2"),
   RejectReq(Invitation("c2", "u1", "u2"), "u2")}

\* a request arrives
StartJoinRace ==
  \E s \in 1..NSlots, r \in JoinRaceReqs :
    /\ reqs[s].op = "idle"
    /\ reqs' = [reqs EXCEPT ![s] = r]
    /\ UNCHANGED <<store, now, fails, calls100>>

\* the response of a request is sent; its handler state is dropped
Finish ==
  \E s \in 1..NSlots :
    /\ reqs[s].op # "idle"
    /\ reqs[s].pc = "done"
    /\ reqs' = [reqs EXCEPT ![s] = Idle]
    /\ UNCHANGED <<store, now, fails, calls100>>

NextJoinRace ==
  \/ StartJoinRace
  \/ Resume
  \/ Finish

SpecJoinRace == InitJoinRace /\ [][NextJoinRace]_vars

\* ------------------------- two completions interleaved at awaits
\* the store after u1 joined c2 at time 1 and c1 at time 2
ProgressRaceWorld ==
  LET w0 == [challenges |-> [c \in Challenges |->
                IF c = "c1" THEN ChallengeDoc(TRUE, 10, 1, 2, NoDate)
                ELSE ChallengeDoc(TRUE, 20, NoMax, NoDate, 1)],
             users |-> [u \in Users |-> UserDoc(Users \ {u})],
             badges |-> InitBadges(TRUE, FALSE),
             trainings |-> [u \in Users |-> 0],
             invitations |-> EmptyBag,
             now |-> 1]
      w1 == Run(w0, JoinReq("c2", "u1")).w
      w2 == Run([w1 EXCEPT !.now = 2], JoinReq("c1", "u1")).w
  IN w2

InitProgressRace ==
  /\ challenges = Quiesce(ProgressRaceWorld.challenges)
  /\ users = Quiesce(ProgressRaceWorld.users)
  /\ badges = ProgressRaceWorld.badges
  /\ trainings = ProgressRaceWorld.trainings
  /\ invitations = ProgressRaceWorld.invitations
  /\ now = ProgressRaceWorld.now
  /\ reqs = [s \in 1..NSlots |-> Idle]
  /\ fails = 0
  /\ calls100 = {}

\* the requests that race: each completes one of u1's two challenges
ProgressRaceReqs ==
  {ProgressReq(c, "u1", 100, "none") : c \in Challenges}

\* a request arrives; a challenge is completed by one request only
StartProgressRace ==
  \E s \in 1..NSlots, r \in ProgressRaceReqs :
    /\ reqs[s].op = "idle"
    /\ \A t \in 1..NSlots : reqs[t].op = "idle" \/ reqs[t].c # r.c
    /\ reqs' = [reqs EXCEPT ![s] = r]
    /\ UNCHANGED <<store, now, fails, calls100>>

NextProgressRace ==
  \/ StartProgressRace
  \/ Resume
  \/ Finish

SpecProgressRace == InitProgressRace /\ [][NextProgressRace]_vars

\* ------------------------------------- invitations among three users
\* a third user, stored only in the runs of SpecInvite3
Users3 == Users \cup {"u3"}

\* friendIds lists sent to inviteFriends
FriendLists3 ==
  {<<"u2">>, <<"u3">>, <<"u2", "u3">>, <<"u3", "u2">>, <<"u2", "ux">>,
   <<"u1", "u3">>, <<"u1", "u2">>}

Invitations3 ==
  {Invitation("c2", s, rcp) : s \in Users3, rcp \in Users3}

\* three users; u1 and u3 are friends or not, every other pair is
InitInvite3 ==
  /\ challenges = [c \in Challenges |->
       IF c = "c1" THEN ChallengeDoc(TRUE, 10, 1, 2, NoDate)
       ELSE ChallengeDoc(TRUE, 20, NoMax, NoDate, 1)]
  /\ \E strangers \in {{}, {"u1", "u3"}} :
       users = [u \in Users3 |->
                  UserDoc(IF u \in strangers THEN Users3 \ strangers
                          ELSE Users3 \ {u})]
  /\ badges = InitBadges(TRUE, FALSE)
  /\ trainings = [u \in Users3 |-> 0]
  /\ invitations = EmptyBag
  /\ now = 1
  /\ reqs = [s \in 1..NSlots |-> Idle]
  /\ fails = 0
  /\ calls100 = {}

join3 ==
  /\ AllIdle
  /\ \E u \in Users3 : Commit(Run(World, JoinReq("c2", u)))

leave3 ==
  /\ AllIdle
  /\ \E u \in Users3 : Commit(Run(World, LeaveReq("c2", u)))

invite3 ==
  /\ AllIdle
  /\ \E u \in Users3, friendIds \in FriendLists3 :
       Commit(Run(World, InviteReq("c2", u, friendIds)))

accept3 ==
  /\ AllIdle
  /\ \E inv \in Invitations3 : Commit(Run(World, AcceptReq(inv, inv.recipient)))

reject3 ==
  /\ AllIdle
  /\ \E inv \in Invitations3 : Commit(Run(World, RejectReq(inv, inv.recipient)))

NextInvite3 ==
  \/ join3
  \/ leave3
  \/ invite3
  \/ accept3
  \/ reject3

SpecInvite3 == InitInvite3 /\ [][NextInvite3]_vars

\* ================================================================ claims

\* the participant record of user u in challenge document doc
RecordOf(doc, u) == doc.participants[findIndex(doc, u)]

\* the pair (c, u) is in state Completed
Completed(c, u) ==
  /\ hasParticipant(challenges[c], u)
  /\ RecordOf(challenges[c], u).completedAt # NoDate

\* C1: in any sequence of updateProgress calls on a pair, the completion
\* side effects happen exactly once, at the first call whose clamped value
\* is 100: after such a call the record has completedAt set, and every later
\* updateProgress(100) leaves stats.completedChallenges and stats.score
\* unchanged.
C1_CompletionOnce ==
  \A c \in Challenges, u \in Users :
    <<c, u>> \in calls100 =>
      LET later == Run(World, ProgressReq(c, u, 100, "none")) IN
        /\ Completed(c, u)
        /\ later.w.users[u].stats.completedChallenges =
             users[u].stats.completedChallenges
        /\ later.w.users[u].stats.score = users[u].stats.score

\* C2: when a store call of checkAndAwardBadges is rejected during the
\* updateProgress call that brings a participant to 100, updateProgress
\* returns without error and the record has progress 100 and completedAt set.
C2_BadgeFailureDiscarded ==
  \A c \in Challenges, u \in Users, fail \in FailPoints :
    (hasParticipant(challenges[c], u) /\ ~Completed(c, u)) =>
      LET res == Run(World, ProgressReq(c, u, 100, fail))
          rec == RecordOf(res.w.challenges[c], u)
      IN res.r.injected =>
           /\ res.r.err = "ok"
           /\ rec.progress = 100
           /\ rec.completedAt # NoDate

\* C3: every participant record has completedAt set if and only if its
\* progress equals 100.
C3_CompletedIffHundred ==
  \A c \in Challenges : \A k \in 1..Len(challenges[c].participants) :
    (challenges[c].participants[k].completedAt # NoDate)
      <=> (challenges[c].participants[k].progress = 100)

\* C4: Completed is absorbing: a pair whose record has completedAt set
\* still has that record, with completedAt set, after every step, also when
\* leaveChallenge and updateProgress(100) interleave at their store calls.
C4_CompletedAbsorbing ==
  [][\A c \in Challenges, u \in Users : Completed(c, u) => Completed(c, u)']_vars

\* C5: no badge occurs more than once in a user's badge set, under any
\* interleaving of checkAndAwardBadges and awardBadgeToUser for that user.
C5_NoDuplicateBadge ==
  \A u \in Users : \A i, j \in 1..Len(users[u].badges) :
    i # j => users[u].badges[i] # users[u].badges[j]

\* the snapshot of user u on store w: the persisted counters and the derived
\* counts
SnapshotOf(w, u) ==
  Obj([stats |-> Obj([totalChallenges |-> Num(w.users[u].stats.totalChallenges),
                      totalWorkoutMinutes |-> Num(w.users[u].stats.totalWorkoutMinutes),
                      score |-> Num(w.users[u].stats.score),
                      trainingCount |-> Num(w.trainings[u]),
                      completedChallenges |->
                        Num(Cardinality({c \in DOMAIN w.challenges :
                              /\ \E p \in Range(w.challenges[c].participants) : p.user = u
                              /\ \E p \in Range(w.challenges[c].participants) :
                                    p.completedAt # NoDate})),
                      totalTrainingMinutes |-> Num(w.trainings[u] * TrainingDuration)]),
       badges |-> Arr([k \in 1..Len(w.users[u].badges) |->
                        Obj([_id |-> Str(w.users[u].badges[k])])]),
       username |-> Str(u), isActive |-> Bool(TRUE),
       emailVerified |-> Bool(FALSE), gyms |-> Arr(<<>>)])

\* the active automatic badges user u does not own on store w and whose
\* every rule holds on the snapshot of w, in the order of Badge.find
EligibleOn(w, u) ==
  SelectSeq(BadgeOrder,
    LAMBDA b : /\ w.badges[b].isActive /\ w.badges[b].isAutomatic
               /\ b \notin Range(w.users[u].badges)
               /\ checkUserEligibility(w.badges[b].rules, SnapshotOf(w, u)))

\* C6 as stated: of two checkAndAwardBadges calls in succession the second
\* returns an empty list and changes no state.
C6_SecondCallEmpty ==
  \A u \in LedgerUsers :
    LET first == Run(World, CheckReq(u, "none"))
        second == Run(first.w, CheckReq(u, "none"))
    IN second.r.earned = <<>> /\ second.w = first.w

\* C6 amended: of two checkAndAwardBadges calls in succession the second
\* awards no badge the first call awarded or the user owned before; it
\* awards only badges that were not eligible on the first call's snapshot;
\* and when the first call awards nothing it returns an empty list and
\* changes no state.
C6_SecondCallNoRepeat ==
  \A u \in LedgerUsers :
    LET first == Run(World, CheckReq(u, "none"))
        second == Run(first.w, CheckReq(u, "none"))
    IN /\ Range(second.r.earned) \cap
            (Range(first.r.earned) \cup Range(users[u].badges)) = {}
       /\ Range(second.r.earned) \cap Range(EligibleOn(World, u)) = {}
       /\ first.r.earned = <<>> => (second.r.earned = <<>> /\ second.w = first.w)

\* a state where the first call awards a badge and the second another one
C6_Witness ==
  LET first == Run(World, CheckReq("u1", "none"))
      second == Run(first.w, CheckReq("u1", "none"))
  IN first.r.earned = <<"b1">> /\ second.r.earned = <<"b2">>

\* C7: checkAndAwardBadges awards exactly the active automatic badges the
\* user does not own whose every rule holds on the snapshot taken at the
\* start of the call: each is appended to the user's badges, stats.score
\* grows by the sum of their points, each one's earnedCount grows by 1 (no
\* other badge's changes), and the list returned is those badges in the
\* order of iteration.
C7_AwardsEligible ==
  \A u \in LedgerUsers :
    LET res == Run(World, CheckReq(u, "none"))
        eligible == EligibleOn(World, u)
    IN /\ res.r.err = "ok"
       /\ res.r.earned = eligible
       /\ res.w.users[u].badges = users[u].badges \o eligible
       /\ res.w.users[u].stats.score =
            users[u].stats.score + SumPoints(badges, eligible)
       /\ \A b \in Badges :
            res.w.badges[b].earnedCount =
              badges[b].earnedCount + (IF b \in Range(eligible) THEN 1 ELSE 0)

\* a state where the call awards two badges
C7_Witness == EligibleOn(World, "u1") = <<"b1", "b2">>

\* the requests of user u that are not awardBadgeToUser
OtherRequests(u) ==
  {JoinReq(c, u) : c \in Challenges}
  \cup {ProgressReq(c, u, progress, "none") :
          c \in Challenges, progress \in ProgressInputs}
  \cup {TrainingReq(u, fail) : fail \in FailPoints \cup {"none"}}
  \cup {CheckReq(u, "none")}

\* C8: a badge that is not automatic, or not active, is added to no badge
\* set by checkAndAwardBadges, called directly, by updateProgress or by
\* createTraining, whatever the user's stats: no request other than
\* awardBadgeToUser adds it or changes its earnedCount.
C8_ManualOnly ==
  \A u \in LedgerUsers, b \in Badges :
    ~(badges[b].isActive /\ badges[b].isAutomatic) =>
      \A req \in OtherRequests(u) :
        LET res == Run(World, req) IN
          /\ b \in Range(res.w.users[u].badges) => b \in Range(users[u].badges)
          /\ res.w.badges[b].earnedCount = badges[b].earnedCount

\* a state where the user meets the rules of manual badge b3, does not own
\* it, and checkAndAwardBadges awards another badge
C8_Witness ==
  /\ badges["b3"].isActive /\ ~badges["b3"].isAutomatic
  /\ "b3" \notin Range(users["u1"].badges)
  /\ checkUserEligibility(badges["b3"].rules, SnapshotOf(World, "u1"))
  /\ Run(World, CheckReq("u1", "none")).r.earned # <<>>

\* the preconditions of joinChallenge(c, u) that fail, by their position in
\* the order of the claim
FailedJoinChecks(c, u) ==
  IF c \notin Challenges THEN {1}
  ELSE {k \in 2..6 :
          CASE k = 2 -> ~challenges[c].isActive
            [] k = 3 -> \E p \in Range(challenges[c].participants) : p.user = u
            [] k = 4 -> /\ challenges[c].maxParticipants # NoMax
                        /\ Len(challenges[c].participants) >= challenges[c].maxParticipants
            [] k = 5 -> challenges[c].startDate # NoDate /\ now < challenges[c].startDate
            [] k = 6 -> challenges[c].endDate # NoDate /\ now > challenges[c].endDate}

JoinErrors ==
  <<"challenge_not_found", "inactive", "already_participating", "full",
    "not_started", "ended">>

\* C9: joinChallenge returns the error of the first failing precondition in
\* the order exists, isActive, not a participant, not full, started, not
\* ended; it succeeds when none fails; when it fails the store is unchanged.
C9_JoinCheckOrder ==
  \A c \in ChallengeIds, u \in Users :
    LET res == Run(World, JoinReq(c, u))
        failed == FailedJoinChecks(c, u)
    IN IF failed = {} THEN res.r.err = "ok"
       ELSE /\ res.r.err = JoinErrors[CHOOSE k \in failed : \A j \in failed : k <= j]
            /\ res.w = World

\* a state where a join fails three checks (inactive, participant, full)
C9_Witness ==
  \E c \in Challenges, u \in Users :
    /\ FailedJoinChecks(c, u) = {2, 3, 4}
    /\ Run(World, JoinReq(c, u)).r.err = "inactive"

\* C10: after a successful joinChallenge(c, u) the participant list of c is
\* the previous list with one record for u appended, with progress 0 and no
\* completedAt, and u's stats.totalChallenges has grown by 1.
C10_JoinEffect ==
  \A c \in Challenges, u \in Users :
    LET res == Run(World, JoinReq(c, u)) IN
      res.r.err = "ok" =>
        /\ res.w.challenges[c].participants =
             Append(challenges[c].participants,
                    [user |-> u, progress |-> 0, completedAt |-> NoDate])
        /\ res.w.users[u].stats.totalChallenges =
             users[u].stats.totalChallenges + 1

\* a state where a second user joins a challenge after the first
C10_Witness ==
  \E c \in Challenges, u \in Users :
    /\ Len(challenges[c].participants) = 1
    /\ Run(World, JoinReq(c, u)).r.err = "ok"

\* the records of user u in the participant list of challenge c
RecordsOf(c, u) ==
  {k \in 1..Len(challenges[c].participants) : challenges[c].participants[k].user = u}

\* C11: a challenge's participant list holds at most one record per user,
\* also when two joinChallenge calls, or a joinChallenge and an
\* acceptInvitation, of one user interleave at their store calls.
C11_OneRecordPerUser ==
  \A c \in Challenges, u \in Users : Cardinality(RecordsOf(c, u)) <= 1

C13_LeaveFrame ==
  \A c \in Challenges, u \in Users :
    LET res == Run(World, LeaveReq(c, u))
        active == \E k \in RecordsOf(c, u) :
                    challenges[c].participants[k].completedAt = NoDate
    IN /\ (res.r.err = "ok") <=> active
       /\ active =>
            res.w = [World EXCEPT
              !.challenges[c].participants = SelectSeq(@, LAMBDA p : p.user # u),
              !.challenges[c].v = res.w.challenges[c].v,
              !.users[u].stats.totalChallenges = @ - 1]
       /\ ~active => res.w = World

\* a state where the first of two participants leaves
C13_Witness ==
  \E c \in Challenges, u \in Users :
    /\ Len(challenges[c].participants) = 2
    /\ challenges[c].participants[1].user = u
    /\ Run(World, LeaveReq(c, u)).r.err = "ok"

\* C14: acceptInvitation of a pending invitation succeeds only in states
\* where joinChallenge of the same user and challenge would succeed
\* (active, not a participant, below capacity, inside the date window); its
\* effect on the participant list and on the user's counters is that of
\* joinChallenge, and the invitation no longer exists afterwards.
C14_AcceptAsJoin ==
  \A inv \in BagToSet(invitations) :
    LET accept == Run(World, AcceptReq(inv, inv.recipient))
        join == Run(World, JoinReq(inv.challenge, inv.recipient))
    IN accept.r.err = "ok" =>
         /\ join.r.err = "ok"
         /\ accept.w.challenges = join.w.challenges
         /\ accept.w.users = join.w.users
         /\ ~BagIn(inv, accept.w.invitations)

\* C16: acceptInvitation of a pending invitation whose recipient already
\* has a record in the challenge deletes the invitation and fails with the
\* 'already participating' error; the participant list, the user counters
\* and everything else in the store are unchanged.
C16_AcceptWhenJoined ==
  \A inv \in BagToSet(invitations) :
    RecordsOf(inv.challenge, inv.recipient) # {} =>
      LET res == Run(World, AcceptReq(inv, inv.recipient)) IN
        /\ res.r.err = "already_participating"
        /\ res.w = [World EXCEPT !.invitations = @ (-) SetToBag({inv})]
        /\ ~BagIn(inv, res.w.invitations)

\* a pending invitation whose recipient has joined by joinChallenge
C16_Witness ==
  \E inv \in BagToSet(invitations) :
    /\ RecordsOf(inv.challenge, inv.recipient) # {}
    /\ Len(challenges[inv.challenge].participants) = 2

\* the number of pending invitations of recipient rcp for challenge c
PendingCount(bag, c, rcp) ==
  BagCardinality([inv \in {i \in BagToSet(bag) :
                             i.challenge = c /\ i.recipient = rcp} |-> bag[inv]])

ProcessingOrder(friendIds) ==
  SelectSeq(UserOrder, LAMBDA f : f \in DOMAIN users /\ f \in Range(friendIds))

\* the error of the per-recipient checks of inviteFriends("c2", u, ..) that
\* recipient rcp fails, "ok" if none
RecipientError(u, rcp) ==
  IF rcp \notin users[u].friends THEN "not_friend"
  ELSE IF PendingCount(invitations, "c2", rcp) >= 1 THEN "already_invited"
  ELSE IF \E p \in Range(challenges["c2"].participants) : p.user = rcp
    THEN "already_participating"
  ELSE "ok"

\* C17: when inviteFriends, called by a participant, names a recipient who
\* fails a per-recipient check, the call returns the error of the first
\* such recipient in processing order; the invitations of the recipients
\* processed before it are created and stay pending, and none is created
\* for it or for a later recipient.  A recipient who is not a stored user
\* fails the call before any recipient is processed.
C17_PartialInvitations ==
  \A u \in DOMAIN users, friendIds \in FriendLists3 :
    LET res == Run(World, InviteReq("c2", u, friendIds))
        order == ProcessingOrder(friendIds)
        failing == {k \in 1..Len(order) : RecipientError(u, order[k]) # "ok"}
        first == CHOOSE k \in failing : \A j \in failing : k <= j
    IN (\E p \in Range(challenges["c2"].participants) : p.user = u) =>
         IF ~(Range(friendIds) \subseteq DOMAIN users)
           THEN res.r.err = "users_not_found" /\ res.w = World
         ELSE failing # {} =>
           /\ res.r.err = RecipientError(u, order[first])
           /\ res.w = [World EXCEPT !.invitations =
                  @ (+) SetToBag({Invitation("c2", u, order[k]) : k \in 1..(first - 1)})]

\* a call that creates the invitation of its first recipient and fails on
\* the second, who is invited already
C17_Witness ==
  \E u \in DOMAIN users, friendIds \in FriendLists3 :
    LET res == Run(World, InviteReq("c2", u, friendIds)) IN
      /\ res.r.err = "already_invited"
      /\ BagCardinality(res.w.invitations) = BagCardinality(invitations) + 1

\* C18: for a user holding a badge, removeBadgeFromUser followed at once
\* by awardBadgeToUser for the same (badge, user) succeeds twice and leaves
\* the user owning the badge with the score it had before the revoke; for a
\* user not holding an existing badge, awardBadgeToUser followed at once by
\* removeBadgeFromUser succeeds twice and restores the user's badge list,
\* the score and the badge's earnedCount.
RevokeThenAward(b, u, ord1, ord2) ==
  Run(Run(World, RemoveReq(b, u, ord1)).w, AwardReq(b, u, ord2))

AwardThenRevoke(b, u, ord1, ord2) ==
  Run(Run(World, AwardReq(b, u, ord1)).w, RemoveReq(b, u, ord2))

C18_RevokeAwardRoundTrip ==
  AllIdle =>
    \A b \in DOMAIN badges, u \in Users, ord1 \in {0, 1}, ord2 \in {0, 1} :
      IF b \in Range(users[u].badges)
      THEN /\ Run(World, RemoveReq(b, u, ord1)).r.err = "ok"
           /\ RevokeThenAward(b, u, ord1, ord2).r.err = "ok"
           /\ b \in Range(RevokeThenAward(b, u, ord1, ord2).w.users[u].badges)
           /\ RevokeThenAward(b, u, ord1, ord2).w.users[u].stats.score
                = users[u].stats.score
      ELSE /\ Run(World, AwardReq(b, u, ord1)).r.err = "ok"
           /\ AwardThenRevoke(b, u, ord1, ord2).r.err = "ok"
           /\ AwardThenRevoke(b, u, ord1, ord2).w.users[u].badges = users[u].badges
           /\ AwardThenRevoke(b, u, ord1, ord2).w.users[u].stats.score
                = users[u].stats.score
           /\ AwardThenRevoke(b, u, ord1, ord2).w.badges[b].earnedCount
                = badges[b].earnedCount

\* a user with challenge points holds two badges, the first of which moves
\* to the end of the list on revoke and award, and lacks a third badge that
\* the other user has earned
C18_Witness ==
  /\ AllIdle
  /\ \E u \in Users, b \in DOMAIN badges, b2 \in DOMAIN badges :
       /\ Len(users[u].badges) = 2
       /\ users[u].badges[1] = b
       /\ users[u].stats.score > badges[b].points + badges[users[u].badges[2]].points
       /\ RevokeThenAward(b, u, 0, 1).w.users[u].badges
            = <<users[u].badges[2], b>>
       /\ RevokeThenAward(b, u, 0, 1).w.users[u].stats.score = users[u].stats.score
       /\ b2 \notin Range(users[u].badges)
       /\ badges[b2].earnedCount = 1
       /\ Run(World, AwardReq(b2, u, 1)).w.badges[b2].earnedCount = 2
       /\ AwardThenRevoke(b2, u, 1, 0).w.badges[b2].earnedCount = 1

\* C19: after deleteBadge(b) succeeds no user's badge list contains b and
\* the badge document is gone, while every user's stats.score, holders of b
\* included, is what it was before the call.
C19_DeleteBadgeFrame ==
  AllIdle =>
    \A b \in Badges :
      Run(World, DeleteReq(b)).r.err = "ok" =>
        /\ b \notin DOMAIN Run(World, DeleteReq(b)).w.badges
        /\ \A u \in Users :
             /\ b \notin Range(Run(World, DeleteReq(b)).w.users[u].badges)
             /\ Run(World, DeleteReq(b)).w.users[u].stats.score
                  = users[u].stats.score

\* both users hold the badge, one of them next to another badge, and keep
\* its points after the deletion
C19_Witness ==
  /\ AllIdle
  /\ \E b \in DOMAIN badges :
       /\ \A u \in Users : b \in Range(users[u].badges)
       /\ \E u \in Users : Len(users[u].badges) = 2
       /\ Run(World, DeleteReq(b)).r.err = "ok"
       /\ \A u \in Users :
            /\ Run(World, DeleteReq(b)).w.users[u].stats.score >= badges[b].points
            /\ Len(Run(World, DeleteReq(b)).w.users[u].badges)
                 = Len(users[u].badges) - 1

\* C20: a between rule holds exactly when the resolved field is a number
\* with value <= field <= value2 (bounds taken as given), and a between,
\* greater_than or less_than rule is false on every resolved field that is
\* not a number.
ResolvedField(u, rule) == getFieldValue(SnapshotOf(World, u), rule.field)

C20_BetweenFailClosed ==
  \A b \in DOMAIN badges, u \in LedgerUsers :
    \A k \in 1..Len(badges[b].rules) :
      /\ badges[b].rules[k].operator = "between" =>
           (evaluateRule(ResolvedField(u, badges[b].rules[k]), badges[b].rules[k])
             <=> /\ ResolvedField(u, badges[b].rules[k]).t = "num"
                 /\ ResolvedField(u, badges[b].rules[k]).n
                      >= badges[b].rules[k].value.n
                 /\ ResolvedField(u, badges[b].rules[k]).n
                      <= badges[b].rules[k].value2.n)
      /\ ( /\ badges[b].rules[k].operator \in RuleOperators
           /\ ResolvedField(u, badges[b].rules[k]).t # "num" )
           => ~evaluateRule(ResolvedField(u, badges[b].rules[k]), badges[b].rules[k])

\* C21: every stored badge has value2 defined on each of its between rules
\* (a definition with a between rule and no value2 is rejected by
\* createBadge, createCustomBadge and updateBadge and nothing is stored).
C21_BetweenHasValue2 ==
  \A b \in DOMAIN badges :
    \A k \in 1..Len(badges[b].rules) :
      badges[b].rules[k].operator = "between" => badges[b].rules[k].value2 # Undef

\* C22: for a user with a participant record in the challenge,
\* updateProgress(c, u, v) stores progress = min(100, max(0, v)) for every
\* input v and leaves the records of the other participants unchanged, also
\* in the call whose badge check meets a rejected store call.
ProgressValues == {-5, 0, 40, 100, 150}

C22_ProgressClamped ==
  \A c \in Challenges, u \in Users, v \in ProgressValues,
     fail \in FailPoints \cup {"none"} :
    hasParticipant(challenges[c], u) =>
      /\ Len(Run(World, ProgressReq(c, u, v, fail)).w.challenges[c].participants)
           = Len(challenges[c].participants)
      /\ \A k \in 1..Len(challenges[c].participants) :
           IF k = findIndex(challenges[c], u)
           THEN Run(World, ProgressReq(c, u, v, fail)).w.challenges[c].participants[k].progress
                  = clamp(v)
           ELSE Run(World, ProgressReq(c, u, v, fail)).w.challenges[c].participants[k]
                  = challenges[c].participants[k]

\* the dotted path resolves on obj: every key but the last names a
\* structured value that has the next key
RECURSIVE PathResolves(_, _)
PathResolves(obj, path) ==
  \/ path = <<>>
  \/ /\ obj.t = "obj"
     /\ Head(path) \in DOMAIN obj.o
     /\ PathResolves(obj.o[Head(path)], Tail(path))
  \/ obj.t = "arr" /\ path = <<"length">>

RuleHolds(u, rule) == evaluateRule(ResolvedField(u, rule), rule)

\* C23: checkUserEligibility is true exactly when every rule of the badge
\* evaluates true on the snapshot, and a rule whose field path does not
\* resolve evaluates false, for every operator.
C23_EligibilityIsConjunction ==
  \A b \in DOMAIN badges, u \in LedgerUsers :
    /\ checkUserEligibility(badges[b].rules, SnapshotOf(World, u))
         <=> \A k \in 1..Len(badges[b].rules) : RuleHolds(u, badges[b].rules[k])
    /\ \A k \in 1..Len(badges[b].rules) :
         ~PathResolves(SnapshotOf(World, u), badges[b].rules[k].field)
           => ~RuleHolds(u, badges[b].rules[k])

\* after a completed challenge, a badge of two rules whose first rule holds
\* and whose second names an unresolved path, which a check does not award
C23_Witness ==
  /\ AllIdle
  /\ Len(badges["b1"].rules) = 2
  /\ users["u1"].stats.completedChallenges = 1
  /\ badges["b1"].rules[1].operator = "greater_than"
  /\ RuleHolds("u1", badges["b1"].rules[1])
  /\ badges["b1"].rules[2].operator = "less_than"
  /\ ~PathResolves(SnapshotOf(World, "u1"), badges["b1"].rules[2].field)
  /\ ~checkUserEligibility(badges["b1"].rules, SnapshotOf(World, "u1"))
  /\ "b1" \notin Range(users["u1"].badges)
  /\ "b1" \notin Range(Run(World, CheckReq("u1", "none")).w.users["u1"].badges)

\* the challenges in which user u's own participant record has completedAt
OwnCompleted(u) ==
  {c \in Challenges : \E k \in RecordsOf(c, u) :
     challenges[c].participants[k].completedAt # NoDate}

\* C24: the stats.completedChallenges of the snapshot that
\* checkAndAwardBadges evaluates rules on is the number of challenges in
\* which the user's own participant record has completedAt set, whatever
\* the persisted counter and the other participants' records are.
C24_SnapshotCountsOwnCompletions ==
  AllIdle =>
    \A u \in Users :
      Run(World, CheckReq(u, "none")).r.cc = Cardinality(OwnCompleted(u))

\* C25: with operations run one at a time, every invitation that a step
\* adds to the collection has a sender with a participant record in its
\* challenge and a recipient who is an existing user of the sender's friend
\* list, had no pending invitation for the challenge and has no participant
\* record in it.
C25_InvitationsWellFormed ==
  [][\A inv \in BagToSet(invitations') :
       CopiesIn(inv, invitations') > CopiesIn(inv, invitations) =>
         /\ hasParticipant(challenges[inv.challenge], inv.sender)
         /\ inv.recipient \in DOMAIN users
         /\ inv.recipient \in users[inv.sender].friends
         /\ PendingCount(invitations, inv.challenge, inv.recipient) = 0
         /\ ~hasParticipant(challenges[inv.challenge], inv.recipient)]_vars

\* two invitations of one sender, written by one call, are pending while a
\* third user's invitation was refused or never sent
C25_Witness ==
  \E c \in Challenges, sender \in DOMAIN users :
    /\ hasParticipant(challenges[c], sender)
    /\ Cardinality({inv \in BagToSet(invitations) :
                      inv.challenge = c /\ inv.sender = sender}) = 2
    /\ \A inv \in BagToSet(invitations) :
         /\ inv.recipient \in users[inv.sender].friends
         /\ ~hasParticipant(challenges[inv.challenge], inv.recipient)

\* the reward points of the challenges user u has completed
RECURSIVE SumRewards(_, _)
SumRewards(cs, u) ==
  IF cs = {} THEN 0
  ELSE LET c == CHOOSE x \in cs : TRUE
       IN (IF Completed(c, u) THEN challenges[c].points ELSE 0)
          + SumRewards(cs \ {c}, u)

\* C26: when two updateProgress calls that complete two different
\* challenges of one user interleave at their store calls, then once both
\* have returned the user's stats.score is the initial score (0) plus both
\* rewards plus the points of every badge added to the user's badge list.
C26_NoLostIncrement ==
  (AllIdle /\ \A c \in Challenges : Completed(c, "u1")) =>
    users["u1"].stats.score
      = SumRewards(Challenges, "u1") + SumPoints(badges, users["u1"].badges)

\* C27: the updateProgress call that completes a challenge awards, within
\* the call, the badge whose rule asks for a completed-challenge count that
\* the challenge just completed brings the user to (b1: more than 0).
C27_CountsJustCompleted ==
  AllIdle =>
    \A c \in Challenges, u \in Users :
      ( /\ hasParticipant(challenges[c], u)
        /\ ~Completed(c, u)
        /\ Run(World, ProgressReq(c, u, 100, "none")).r.err = "ok" )
      => "b1" \in Range(Run(World, ProgressReq(c, u, 100, "none")).w.users[u].badges)

\* C28: after any sequence of joinChallenge, acceptInvitation,
\* leaveChallenge, updateProgress, checkAndAwardBadges, awardBadgeToUser and
\* removeBadgeFromUser calls, each run to completion with no store failure,
\* every user's stats.score is the initial score (0) plus the reward points
\* of the challenges the user has completed plus the points of the badges
\* in the user's badge list.
C28_ScoreLedger ==
  \A u \in Users :
    users[u].stats.score
      = SumRewards(Challenges, u) + SumPoints(badges, users[u].badges)

\* u1 has completed both challenges and holds a manual and an automatic
\* badge; u2, who accepted the invitation, has completed one challenge and
\* holds the automatic badge too
C28_Witness ==
  /\ \A c \in Challenges : Completed(c, "u1")
  /\ users["u1"].badges = <<"b3", "b1">>
  /\ users["u1"].stats.score = 42
  /\ badges["b1"].earnedCount = 2
  /\ Completed("c2", "u2")
  /\ users["u2"].stats.score >= 20
  /\ invitations = EmptyBag

\* the users whose badge list contains badge b
Holders(b) == {u \in Users : b \in Range(users[u].badges)}

\* C29: after any sequence of checkAndAwardBadges, awardBadgeToUser and
\* removeBadgeFromUser calls, none interleaved with another, from a store
\* where every earnedCount is the number of holders, every badge's
\* earnedCount is the number of users whose badge list contains it, and is
\* not negative.
C29_EarnedCountIsHolders ==
  \A b \in DOMAIN badges :
    /\ badges[b].earnedCount = Cardinality(Holders(b))
    /\ badges[b].earnedCount >= 0

\* the participant records of user u, as (challenge, index) pairs
UserRecords(u) ==
  {<<c, k>> \in Challenges \X (1..Cardinality(Users) + 1) :
     /\ k <= Len(challenges[c].participants)
     /\ challenges[c].participants[k].user = u}

\* C30: after any sequence of joinChallenge, acceptInvitation,
\* leaveChallenge and updateProgress calls, each run to completion with no
\* store failure, every user's stats.totalChallenges is the number of the
\* user's participant records over all challenges, so it is not negative,
\* and stats.completedChallenges is the number of those records with
\* completedAt set.
C30_StatsCountRecords ==
  \A u \in Users :
    /\ users[u].stats.totalChallenges = Cardinality(UserRecords(u))
    /\ users[u].stats.totalChallenges >= 0
    /\ users[u].stats.completedChallenges
         = Cardinality({rec \in UserRecords(u) :
              challenges[rec[1]].participants[rec[2]].completedAt # NoDate})

\* u2 has a participant record in both challenges and has completed one of
\* the two; u1 has none, and no invitation is pending
C30_Witness ==
  /\ \A c \in Challenges : hasParticipant(challenges[c], "u2")
  /\ users["u2"].stats.totalChallenges = 2
  /\ users["u2"].stats.completedChallenges = 1
  /\ users["u1"].stats.totalChallenges = 0
  /\ invitations = EmptyBag
  /\ now = MaxTime

====
